---- MODULE Spec2Model ----
(***************************************************************************)
(* Connect4-TUI: the App state machine of src/main.rs (board, floating     *)
(* chip, colour, exit flag) and the viewport fitter aspect_fit_center.     *)
(*                                                                         *)
(* Canvas coordinates are f64 values of the form k + 0.5; they are kept    *)
(* here as the integer 2*value (0.5 -> 1, 6.5 -> 13, +1.0 -> +2), so that  *)
(* the cast `x as usize` is the truncating division by 2.                  *)
(* The ratio passed to aspect_fit_center is kept as an exact fraction      *)
(* num/den; products and quotients with it are floored as the code does.   *)
(***************************************************************************)
EXTENDS Integers, Sequences, FiniteSets, TLC

VARIABLES exit, color, chip_circle, placements, drops, last_turn,
          inner, ratio, center_frame

vars == <<exit, color, chip_circle, placements, drops, last_turn,
          inner, ratio, center_frame>>

appVars == <<exit, color, chip_circle, placements, drops, last_turn>>

(* ---------------- bounds of the model ---------------- *)
\* successful drops explored in one game
MaxDrops == 6
\* columns that receive chips in one game
MaxColumnsUsed == 1
\* largest width / height / origin of the drawable rectangle, and largest
\* numerator / denominator of the ratio, explored for the fitter
MaxW == 22
MaxH == 13
MaxOrigin == 1
MaxNum == 4
MaxDen == 3

(* ---------------- program constants ---------------- *)
COLS == 7
ROWS == 6

Yellow == "Yellow"
Red == "Red"
Colors == {Yellow, Red}

\* Option<Circle>: None is the empty set, Some(c) is {c}
None == {}
Some(c) == {c}

\* Circle { x, y, radius, color }; x and y in half units, radius in tenths
Circle(x, y, c) == [x |-> x, y |-> y, radius |-> 2, color |-> c]

\* variant: the new chip takes the colour held before the toggle
NewChip_old(c) == Circle(1, 13, IF c = "Yellow" THEN "Red" ELSE "Yellow")

\* the floating chip App::new and add_to_placements create: (0.5, 6.5)
NewChip(c) == Circle(1, 13, c)

Columns == 0 .. (COLS - 1)
Rows == 0 .. (ROWS - 1)

(* ---------------- App::aspect_fit_center ---------------- *)
Rect(x, y, w, h) == [x |-> x, y |-> y, width |-> w, height |-> h]

\* `v as u16` of a non-negative floored f64: saturating
AsU16(v) == IF v > 65535 THEN 65535 ELSE v

\* u16::saturating_sub
saturating_sub(a, b) == IF a > b THEN a - b ELSE 0

\* variant: the comparison is the other way round
HeightLimited_inverted(in, r) == in.width * r.den < r.num * in.height

\* `area_ratio > ratio_w_over_h` with area_ratio = avail_w / avail_h
HeightLimited(in, r) == in.width * r.den > r.num * in.height

\* raw_w.floor(): ratio * avail_h when limited by height, else avail_w
FloorRawW(in, r) ==
    IF HeightLimited(in, r) THEN (r.num * in.height) \div r.den ELSE in.width

\* raw_h.floor(): avail_h when limited by height, else avail_w / ratio
FloorRawH(in, r) ==
    IF HeightLimited(in, r) THEN in.height ELSE (in.width * r.den) \div r.num

\* variant: rounds to the nearest multiple instead of down
Snap_nearest(v, n) == ((AsU16(v) + n \div 2) \div n) * n

\* (raw.floor() as u16 / n) * n
Snap(v, n) == (AsU16(v) \div n) * n

\* variant: `&&` in place of `||`
Degenerate_both(w, h) == w = 0 /\ h = 0

\* `snapped_w == 0 || snapped_h == 0`
Degenerate(w, h) == w = 0 \/ h = 0

\* variant: the leftover is not halved
Offset_whole(avail, snapped) == saturating_sub(avail, snapped)

\* (avail.saturating_sub(snapped)) / 2
Offset(avail, snapped) == saturating_sub(avail, snapped) \div 2

aspect_fit_center(in, cols, rows, r) ==
    IF in.width = 0 \/ in.height = 0
    THEN Rect(in.x, in.y, 0, 0)
    ELSE LET snapped_w == Snap(FloorRawW(in, r), cols)
             snapped_h == Snap(FloorRawH(in, r), rows)
         IN IF Degenerate(snapped_w, snapped_h)
            THEN Rect(in.x, in.y, 0, 0)
            ELSE Rect(in.x + Offset(in.width, snapped_w),
                      in.y + Offset(in.height, snapped_h),
                      snapped_w, snapped_h)

\* App::draw: the frame is fitted to the current drawable rectangle
draw ==
    /\ center_frame' = Some(aspect_fit_center(inner, COLS, ROWS, ratio))
    /\ UNCHANGED <<inner, ratio>>

(* ---------------- App::add_to_placements ---------------- *)
\* `self.chip_circle.x as usize`
selected_col(chip) == chip.x \div 2

\* variant: the column is searched from the top
LastNone(column) ==
    IF \E i \in Rows : column[i] = None
    THEN CHOOSE i \in Rows : column[i] = None /\ \A j \in Rows : j > i => column[j] # None
    ELSE ROWS

\* variant: the slot written is always the first one
FirstNone_bottom(column) ==
    IF \E i \in Rows : column[i] = None THEN 0 ELSE ROWS

\* index of the first None of a column in iteration order, ROWS if there is none
FirstNone(column) ==
    IF \E i \in Rows : column[i] = None
    THEN CHOOSE i \in Rows : column[i] = None /\ \A j \in Rows : j < i => column[j] # None
    ELSE ROWS

\* match self.color { Yellow => Red, Red => Yellow, _ => {} }
Toggle(c) ==
    CASE c = Yellow -> Red
      [] c = Red -> Yellow
      [] OTHER -> c

\* variant: slot 0 is the top row
SlotY_top(i) == 2 * (ROWS - 1 - i) + 1

\* y assigned by the match on the slot index: 0 => 0.5, 1 => 1.5, ...
SlotY(i) == 2 * i + 1

\* the placements array after add_to_placements
PlacedBoard(board, chip) ==
    LET col == selected_col(chip)
        i == FirstNone(board[col])
    IN IF i = ROWS THEN board
       ELSE [board EXCEPT ![col][i] = Some([chip EXCEPT !.y = SlotY(i)])]

\* number of columns holding at least one chip
ColumnsUsed(board) == Cardinality({c \in Columns : board[c][0] # None})

\* variant: the colour match sits outside the `if chip.is_none()`
add_to_placements_toggling ==
    LET col == selected_col(chip_circle)
        i == FirstNone(placements[col])
    IN IF i = ROWS
       THEN /\ color' = Toggle(color)
            /\ UNCHANGED <<chip_circle, placements, drops, last_turn>>
       ELSE /\ drops < MaxDrops
            /\ placements[col][0] = None => ColumnsUsed(placements) < MaxColumnsUsed
            /\ placements' = PlacedBoard(placements, chip_circle)
            /\ color' = Toggle(color)
            /\ chip_circle' = NewChip(Toggle(color))
            /\ drops' = drops + 1
            /\ last_turn' = color

add_to_placements ==
    LET col == selected_col(chip_circle)
        i == FirstNone(placements[col])
    IN IF i = ROWS
       THEN UNCHANGED <<color, chip_circle, placements, drops, last_turn>>
       ELSE /\ drops < MaxDrops
            /\ placements[col][0] = None => ColumnsUsed(placements) < MaxColumnsUsed
            /\ placements' = PlacedBoard(placements, chip_circle)
            /\ color' = Toggle(color)
            /\ chip_circle' = NewChip(Toggle(color))
            /\ drops' = drops + 1
            /\ last_turn' = color

(* ---------------- App::handle_key_press ---------------- *)
\* variant: the right bound is one column short
RightX_short(x) == IF x < 11 THEN x + 2 ELSE x
\* KeyCode::Right
RightX(x) == IF x < 13 THEN x + 2 ELSE x
\* KeyCode::Left
LeftX(x) == IF x > 1 THEN x - 2 ELSE x

\* variant: the key is handled although the loop has ended
KeyRight_after_exit ==
    /\ chip_circle' = [chip_circle EXCEPT !.x = RightX(chip_circle.x)]
    /\ UNCHANGED <<exit, color, placements, drops, last_turn>>
    /\ draw

KeyRight ==
    /\ ~exit
    /\ chip_circle' = [chip_circle EXCEPT !.x = RightX(chip_circle.x)]
    /\ UNCHANGED <<exit, color, placements, drops, last_turn>>
    /\ draw

KeyLeft ==
    /\ ~exit
    /\ chip_circle' = [chip_circle EXCEPT !.x = LeftX(chip_circle.x)]
    /\ UNCHANGED <<exit, color, placements, drops, last_turn>>
    /\ draw

KeyEnter ==
    /\ ~exit
    /\ add_to_placements
    /\ UNCHANGED exit
    /\ draw

\* KeyCode::Char('c')
KeyC ==
    /\ ~exit
    /\ color' = Red
    /\ UNCHANGED <<exit, chip_circle, placements, drops, last_turn>>
    /\ draw

\* KeyCode::Char('q')
KeyQ ==
    /\ ~exit
    /\ exit' = TRUE
    /\ UNCHANGED <<color, chip_circle, placements, drops, last_turn>>
    /\ draw

\* events delivered by event::read(): key events (kind, code), mouse events and
\* others (resize, focus, paste); "Esc" stands for any key without a match arm
KeyKinds == {"Press", "Release", "Repeat"}
KeyCodes == {"q", "c", "Right", "Left", "Enter", "Esc"}
Events ==
    { [type |-> "Key", kind |-> k, code |-> c] : k \in KeyKinds, c \in KeyCodes }
        \cup { [type |-> t, kind |-> "-", code |-> "-"] : t \in {"Mouse", "Resize"} }

\* the events outside the five handled classes: not a key, not a press, or a
\* press of a key without a match arm
OtherEvents ==
    { ev \in Events :
        ~ (ev.type = "Key" /\ ev.kind = "Press"
             /\ ev.code \in {"q", "c", "Right", "Left", "Enter"}) }

\* variant: the early return on key.kind is missing
Arm_any_kind(ev) ==
    IF ev.type # "Key" THEN "ignore"
    ELSE IF ev.code \in {"q", "c", "Right", "Left", "Enter"} THEN ev.code
    ELSE "ignore"

\* the match arm an event reaches: `match event::read()?` in run, then the
\* early return and `match key.code` of handle_key_press
Arm(ev) ==
    IF ev.type # "Key" THEN "ignore"
    ELSE IF ev.kind # "Press" THEN "ignore"
    ELSE IF ev.code \in {"q", "c", "Right", "Left", "Enter"} THEN ev.code
    ELSE "ignore"

\* one loop iteration for an event that reaches the given arm
Effect(arm) ==
    CASE arm = "q" -> KeyQ
      [] arm = "c" -> KeyC
      [] arm = "Right" -> KeyRight
      [] arm = "Left" -> KeyLeft
      [] arm = "Enter" -> KeyEnter
      [] OTHER -> ~exit /\ draw /\ UNCHANGED appVars

\* the arms those events reach
OtherArms == { Arm(ev) : ev \in OtherEvents }

\* a key event that is not a press, any other key, a mouse or other event
OtherEvent ==
    \E arm \in OtherArms : Effect(arm)

(* ---------------- App::c4_canvas ---------------- *)
\* shapes handed to ctx.draw, coordinates in half units like the circles
RectangleCmd(x, y, w, h, c) ==
    [shape |-> "Rectangle", x |-> x, y |-> y, width |-> w, height |-> h, color |-> c]
LineCmd(x1, y1, x2, y2, c) ==
    [shape |-> "Line", x1 |-> x1, y1 |-> y1, x2 |-> x2, y2 |-> y2, color |-> c]
CircleCmd(ch) ==
    [shape |-> "Circle", x |-> ch.x, y |-> ch.y, radius |-> ch.radius, color |-> ch.color]

\* Rectangle { x: 0.0, y: 0.0, width: COLS, height: ROWS }
Background == <<RectangleCmd(0, 0, 2 * COLS, 2 * ROWS, color)>>

\* for x in 0..=COLS: Line from (x, 0.0) to (x, 6.0)
VerticalLines == [k \in 1 .. (COLS + 1) |-> LineCmd(2 * (k - 1), 0, 2 * (k - 1), 12, color)]

\* for y in 0..=ROWS: Line from (0.0, y) to (7.0, y)
HorizontalLines == [k \in 1 .. (ROWS + 1) |-> LineCmd(0, 2 * (k - 1), 14, 2 * (k - 1), color)]

\* for col in placements.iter() { for chip in col.iter().flatten() { draw } }
PlacedCircles ==
    LET cells == [k \in 1 .. (COLS * ROWS) |-> placements[(k - 1) \div ROWS][(k - 1) % ROWS]]
        some == SelectSeq(cells, LAMBDA cell : cell # None)
    IN [k \in 1 .. Len(some) |-> CircleCmd(CHOOSE ch \in some[k] : TRUE)]

\* variant: the floating chip is drawn after the placed chips
c4_canvas_chip_last ==
    Background \o VerticalLines \o HorizontalLines
        \o PlacedCircles \o <<CircleCmd(chip_circle)>>

\* the shapes the paint closure draws, in order
c4_canvas ==
    Background \o VerticalLines \o HorizontalLines
        \o <<CircleCmd(chip_circle)>> \o PlacedCircles

(* ---------------- the game: App::new and App::run ---------------- *)
\* cell_ratio of App::draw: 7.0 / 6.0 / 0.18 = 175/27
cell_ratio == [num |-> 175, den |-> 27]

\* the drawable rectangle of the game: a 142 x 44 terminal inside its border
game_area == Rect(1, 1, 140, 42)

Init ==
    /\ exit = FALSE
    /\ color = Yellow
    /\ chip_circle = NewChip(Yellow)
    /\ placements = [c \in Columns |-> [i \in Rows |-> None]]
    /\ drops = 0
    /\ last_turn = "none"
    /\ inner = game_area
    /\ ratio = cell_ratio
    /\ center_frame = None

Next ==
    \/ KeyRight
    \/ KeyLeft
    \/ KeyEnter
    \/ KeyC
    \/ KeyQ
    \/ OtherEvent

Spec == Init /\ [][Next]_vars

(* ---------------- the fitter on its own: any rectangle, any ratio ------- *)
Rects ==
    { Rect(x, y, w, h) : x \in 0 .. MaxOrigin, y \in 0 .. MaxOrigin,
                         w \in 0 .. MaxW, h \in 0 .. MaxH }
        \cup { Rect(0, 0, 140, 42) }

Ratios ==
    { [num |-> n, den |-> d] : n \in 1 .. MaxNum, d \in 1 .. MaxDen }
        \cup { cell_ratio }

InitFit ==
    /\ exit = FALSE
    /\ color = Yellow
    /\ chip_circle = NewChip(Yellow)
    /\ placements = [c \in Columns |-> [i \in Rows |-> None]]
    /\ drops = 0
    /\ last_turn = "none"
    /\ inner \in Rects
    /\ ratio \in Ratios
    /\ center_frame = None

\* one frame: App::draw fits the current rectangle
FitDraw ==
    /\ draw
    /\ UNCHANGED appVars

\* the terminal is resized by one cell; the next frame has not been drawn yet
Resize ==
    /\ inner.width <= MaxW /\ inner.height <= MaxH
    /\ \E d \in {-1, 1} :
          \/ /\ inner.width + d \in 0 .. MaxW
             /\ inner' = [inner EXCEPT !.width = inner.width + d]
          \/ /\ inner.height + d \in 0 .. MaxH
             /\ inner' = [inner EXCEPT !.height = inner.height + d]
    /\ center_frame' = None
    /\ UNCHANGED ratio
    /\ UNCHANGED appVars

NextFit ==
    \/ FitDraw
    \/ Resize

SpecFit == InitFit /\ [][NextFit]_vars

(* ======================= properties ======================= *)
ChipColumn == selected_col(chip_circle)

ColumnFull(column) == \A i \in Rows : column[i] # None

\* colour of a cell: "Empty", or the colour of the circle it holds
CellColor(cell) == IF cell = None THEN "Empty" ELSE (CHOOSE ch \in cell : TRUE).color

Height(column) == Cardinality({i \in Rows : column[i] # None})

\* C1: no column has an Empty cell below a non-Empty cell: the occupied cells
\* of each column are exactly rows 0..k-1 for some k in 0..6.
NoGaps ==
    \A c \in Columns :
        \E k \in 0 .. ROWS :
            \A i \in Rows : (placements[c][i] # None) <=> (i < k)

\* a column holding three pieces below three Empty cells
NoGapsWitness ==
    \E c \in Columns : c > 0 /\ Height(placements[c]) = 3

\* C2: a Drop while the floating chip's column holds 6 occupied cells changes
\* neither the board nor the active colour, and does not exit.
FullColumnNoOp ==
    [][ (KeyEnter /\ ColumnFull(placements[ChipColumn]))
            => /\ placements' = placements
               /\ color' = color
               /\ chip_circle' = chip_circle
               /\ exit' = exit ]_vars

\* the chip has been moved back over a column filled by six drops
FullColumnWitness ==
    /\ ~exit
    /\ ChipColumn > 0
    /\ ColumnFull(placements[ChipColumn])

\* C3: for two consecutive successful drops the active colour before the
\* second differs from the active colour before the first; a drop into a
\* full column leaves the active colour unchanged.
TurnAlternates ==
    [][ /\ (drops' = drops + 1 /\ last_turn # "none") => color # last_turn
        /\ (KeyEnter /\ ColumnFull(placements[ChipColumn])) => color' = color ]_vars

\* C4: a successful Drop sets exactly the lowest Empty cell of the floating
\* column to the active colour held just before the drop and changes no other cell.
DropPlacesTurnColour ==
    [][ drops' = drops + 1
            => \E i \in Rows :
                  /\ placements[ChipColumn][i] = None
                  /\ \A j \in Rows : j < i => placements[ChipColumn][j] # None
                  /\ CellColor(placements'[ChipColumn][i]) = color
                  /\ \A c \in Columns, r \in Rows :
                        (c # ChipColumn \/ r # i) => placements'[c][r] = placements[c][r] ]_vars

\* C5: the floating chip's colour is the active colour.
ChipColourIsTurn == chip_circle.color = color

\* C6: the floating column is in 0..6; Left/Right move it by exactly one
\* column, or not at all at the bounds; a move changes neither board nor colour.
MoveClamped ==
    /\ [](/\ ChipColumn \in Columns
          /\ chip_circle.x = 2 * ChipColumn + 1
          /\ LeftX(chip_circle.x) = (IF ChipColumn = 0 THEN chip_circle.x ELSE chip_circle.x - 2)
          /\ RightX(chip_circle.x) = (IF ChipColumn = 6 THEN chip_circle.x ELSE chip_circle.x + 2))
    /\ [][ /\ KeyLeft => /\ ChipColumn' = (IF ChipColumn = 0 THEN 0 ELSE ChipColumn - 1)
                         /\ placements' = placements
                         /\ color' = color
           /\ KeyRight => /\ ChipColumn' = (IF ChipColumn = 6 THEN 6 ELSE ChipColumn + 1)
                          /\ placements' = placements
                          /\ color' = color ]_vars

\* the chip has been moved to the last column, over a full one on the way
MoveClampedWitness ==
    /\ ChipColumn = 6
    /\ \E c \in Columns : c > 0 /\ ColumnFull(placements[c])

\* C7: the fitted rectangle is zero-size, or lies inside the available
\* rectangle with width a multiple of 7 and height a multiple of 6.
FitContained ==
    \A f \in center_frame :
        \/ f.width = 0 /\ f.height = 0
        \/ /\ f.x >= inner.x
           /\ f.y >= inner.y
           /\ f.x + f.width <= inner.x + inner.width
           /\ f.y + f.height <= inner.y + inner.height
           /\ f.width % COLS = 0
           /\ f.height % ROWS = 0

\* a non-empty frame strictly smaller than the available rectangle on both axes
FitContainedWitness ==
    \E f \in center_frame :
        /\ f.width > 0 /\ f.height > 0
        /\ f.width < inner.width
        /\ f.height < inner.height

\* the raw width (resp. height) of the fit is below one cell per column (row)
RawBelowCols ==
    IF inner.width * ratio.den > ratio.num * inner.height
    THEN ratio.num * inner.height < COLS * ratio.den
    ELSE inner.width < COLS
RawBelowRows ==
    IF inner.width * ratio.den > ratio.num * inner.height
    THEN inner.height < ROWS
    ELSE inner.width * ratio.den < ROWS * ratio.num

\* C8: a zero width or height of the available rectangle, or a snapped
\* dimension of 0, gives the zero-size rectangle at the available origin;
\* the result never has exactly one dimension equal to 0.
FitDegenerate ==
    \A f \in center_frame :
        /\ (inner.width = 0 \/ inner.height = 0 \/ RawBelowCols \/ RawBelowRows)
              => f = Rect(inner.x, inner.y, 0, 0)
        /\ (f.width = 0) <=> (f.height = 0)

\* the 3 x 3 rectangle has been fitted
FitDegenerateWitness ==
    /\ inner.width = 3 /\ inner.height = 3
    /\ center_frame = Some(Rect(inner.x, inner.y, 0, 0))

\* C9: a non-empty fitted rectangle is centred: left margin = floor of half
\* the leftover width, top margin = floor of half the leftover height, the
\* opposite margin being equal or one larger.
FitCentred ==
    \A f \in center_frame :
        f.width > 0 =>
            LET left == f.x - inner.x
                right == (inner.x + inner.width) - (f.x + f.width)
                top == f.y - inner.y
                bottom == (inner.y + inner.height) - (f.y + f.height)
            IN /\ left = (inner.width - f.width) \div 2
               /\ top = (inner.height - f.height) \div 2
               /\ right - left \in {0, 1}
               /\ bottom - top \in {0, 1}

\* the 140 x 42 rectangle fitted with ratio 7/6/0.18
FitCentredWitness ==
    /\ inner = Rect(0, 0, 140, 42)
    /\ ratio = cell_ratio
    /\ center_frame = Some(Rect(0, 12, 140, 18))

\* C10: when column 3 has received six drops and no other column any, it
\* holds Yellow, Red, Yellow, Red, Yellow, Red from bottom to top.
Column3Alternates ==
    (ColumnFull(placements[3]) /\ \A c \in Columns : c # 3 => placements[c][0] = None)
        => \A i \in Rows :
              CellColor(placements[3][i]) = (IF i % 2 = 0 THEN Yellow ELSE Red)
\* C11: an event that is not MoveLeft, MoveRight, Drop, Quit or RecolorAccent
\* (a mouse event, another key, a key event that is not a press) leaves the
\* board, the floating chip, the active colour and the exit flag unchanged.
IgnoredEventNoEffect ==
    [][ OtherEvent => /\ placements' = placements
                      /\ chip_circle' = chip_circle
                      /\ color' = color
                      /\ exit' = exit ]_vars

\* a frame was drawn and an event read, and the game is as App::new left it
IgnoredEventWitness ==
    /\ center_frame # None
    /\ ~exit /\ color = Yellow /\ chip_circle = NewChip(Yellow)
    /\ \A c \in Columns : placements[c][0] = None

\* the circles of a command list, in order
CirclesOf(frame) == SelectSeq(frame, LAMBDA cmd : cmd.shape = "Circle")

Occupied == {cr \in Columns \X Rows : placements[cr[1]][cr[2]] # None}

\* C12: the frame holds exactly one circle per occupied cell, at
\* (column + 0.5, row + 0.5) with row 0 at the bottom, and exactly one circle
\* for the floating chip, at (floating column + 0.5, 6.5).
FrameHasOneCirclePerChip ==
    LET circles == CirclesOf(c4_canvas)
        drawn == {<<circles[k].x, circles[k].y>> : k \in DOMAIN circles}
        cells == {<<2 * cr[1] + 1, 2 * cr[2] + 1>> : cr \in Occupied}
        floating == <<2 * ChipColumn + 1, 2 * ROWS + 1>>
    IN /\ drawn = cells \cup {floating}
       /\ Len(circles) = Cardinality(cells) + 1

\* chips stacked in a column, the floating chip aimed at another column
FrameCirclesWitness ==
    /\ ChipColumn > 0
    /\ \E c \in Columns : c # ChipColumn /\ Height(placements[c]) >= 2

\* the floating chip's circle, and whether a command is a placed chip's circle
IsFloating(cmd) ==
    cmd.shape = "Circle" /\ cmd.x = chip_circle.x /\ cmd.y = 2 * ROWS + 1
IsPlaced(cmd) ==
    /\ cmd.shape = "Circle"
    /\ \E cr \in Occupied : cmd.x = 2 * cr[1] + 1 /\ cmd.y = 2 * cr[2] + 1

\* the first 16 commands: the rectangle [0,7]x[0,6], then 8 vertical and
\* 7 horizontal lines at unit spacing
GridFirst(frame) ==
    /\ Len(frame) >= 2 + COLS + ROWS + 1
    /\ frame[1].shape = "Rectangle"
    /\ frame[1].x = 0 /\ frame[1].y = 0
    /\ frame[1].width = 2 * COLS /\ frame[1].height = 2 * ROWS
    /\ \A k \in 0 .. COLS :
          /\ frame[2 + k].shape = "Line"
          /\ frame[2 + k].x1 = 2 * k /\ frame[2 + k].x2 = 2 * k
          /\ frame[2 + k].y1 = 0 /\ frame[2 + k].y2 = 2 * ROWS
    /\ \A k \in 0 .. ROWS :
          /\ frame[3 + COLS + k].shape = "Line"
          /\ frame[3 + COLS + k].y1 = 2 * k /\ frame[3 + COLS + k].y2 = 2 * k
          /\ frame[3 + COLS + k].x1 = 0 /\ frame[3 + COLS + k].x2 = 2 * COLS

\* C16 as stated: rectangle, grid lines, the circles of the occupied cells,
\* and last the circle of the floating chip.
FrameOrderChipLast ==
    LET frame == c4_canvas
        n == Len(frame)
    IN /\ GridFirst(frame)
       /\ n = 17 + Cardinality(Occupied)
       /\ \A k \in 17 .. (n - 1) : IsPlaced(frame[k])
       /\ IsFloating(frame[n])

\* C16 amended: rectangle, grid lines, the circle of the floating chip, and
\* last the circles of the occupied cells.
FrameOrderChipFirst ==
    LET frame == c4_canvas
        n == Len(frame)
    IN /\ GridFirst(frame)
       /\ n = 17 + Cardinality(Occupied)
       /\ IsFloating(frame[17])
       /\ \A k \in 18 .. n : IsPlaced(frame[k])

\* a frame with three placed chips
FrameOrderWitness ==
    /\ center_frame # None
    /\ Cardinality(Occupied) = 3

\* C14: for a non-empty result, the raw size is (r*H, H) when W/H > r and
\* (W, W/r) otherwise; the width is the largest multiple of 7 not above the
\* raw width and the height the largest multiple of 6 not above the raw height.
FitLimitingDimension ==
    \A f \in center_frame :
        (f.width > 0 /\ f.height > 0) =>
            LET W == inner.width
                H == inner.height
                n == ratio.num
                d == ratio.den
            IN /\ f.width % COLS = 0
               /\ f.height % ROWS = 0
               /\ IF W * d > n * H
                  THEN /\ f.width * d <= n * H /\ (f.width + COLS) * d > n * H
                       /\ f.height <= H /\ f.height + ROWS > H
                  ELSE /\ f.width <= W /\ f.width + COLS > W
                       /\ f.height * n <= W * d /\ (f.height + ROWS) * n > W * d

\* a height-limited fit whose raw width is not a multiple of 7
FitLimitingWitness ==
    \E f \in center_frame :
        /\ f.width > 0
        /\ inner.width * ratio.den > ratio.num * inner.height
        /\ (f.width + 1) * ratio.den <= ratio.num * inner.height

\* C15: after a successful drop the floating chip is at column 0, at 6.5, in
\* the new active colour; a drop into a full column leaves it as it was.
ChipResets ==
    [][ /\ drops' = drops + 1 =>
              /\ chip_circle'.x = 1
              /\ chip_circle'.y = 2 * ROWS + 1
              /\ chip_circle'.color = color'
        /\ (KeyEnter /\ ColumnFull(placements[ChipColumn])) =>
              /\ chip_circle' = chip_circle
              /\ chip_circle.y = 2 * ROWS + 1 ]_vars

\* two drops made, the chip back at column 0
ChipResetsWitness ==
    /\ drops = 2
    /\ chip_circle = NewChip(color)

\* C17: exit is false at the start, only a Quit step sets it, and once it is
\* set nothing changes any more.
ExitOnlyByQuit ==
    /\ exit = FALSE
    /\ [][ /\ exit' # exit => KeyQ
           /\ exit => UNCHANGED vars ]_vars

\* the game was quit after a drop
ExitWitness ==
    /\ exit
    /\ drops > 0

\* C18: the 'c' key leaves the board, the floating chip and the active
\* colour unchanged.
RecolorKeepsTurn ==
    [][ KeyC => /\ placements' = placements
                /\ chip_circle' = chip_circle
                /\ color' = color ]_vars

CountOf(c) == Cardinality({cr \in Occupied : CellColor(placements[cr[1]][cr[2]]) = c})

\* C19: the number of Yellow chips equals the number of Red chips or exceeds
\* it by one.
BalancedCounts ==
    \/ CountOf(Yellow) = CountOf(Red)
    \/ CountOf(Yellow) = CountOf(Red) + 1

\* C20: an occupied cell keeps its chip in every later state; the number of
\* occupied cells never decreases, never exceeds 42, and grows by exactly one
\* with each successful drop and with no other step.
CellsWriteOnce ==
    [][ /\ \A c \in Columns, r \in Rows :
              placements[c][r] # None => placements'[c][r] = placements[c][r]
        /\ Cardinality(Occupied') \in {Cardinality(Occupied), Cardinality(Occupied) + 1}
        /\ Cardinality(Occupied') <= COLS * ROWS
        /\ (KeyEnter /\ ~ColumnFull(placements[ChipColumn]))
              => Cardinality(Occupied') = Cardinality(Occupied) + 1
        /\ Cardinality(Occupied') = Cardinality(Occupied) + 1 => KeyEnter ]_vars

\* five chips on the board
CellsWriteOnceWitness == Cardinality(Occupied) = 5

====
